---- MODULE Spec2Model ----
(***************************************************************************)
(* Model of the video aggregation service (api/routes.py and the services  *)
(* it drives): the process_video job pipeline over the DynamoDB table and  *)
(* the S3 bucket (Spec), the range-streaming endpoint stream_video         *)
(* (SpecStream), and the metadata endpoints with update_video (SpecApi).   *)
(* SpecNames runs two jobs whose job_id draws may coincide, SpecMeta one   *)
(* job submitted with enrichment metadata, and SpecRace one job            *)
(* interleaved with the delete, get and list endpoints.                    *)
(*                                                                         *)
(* An optional Python value is a sequence: None is <<>> and a value v is   *)
(* <<v>>.  A DynamoDB attribute that is absent from an item is <<>> too    *)
(* (_serialize_item drops None values, so None and absent coincide).       *)
(***************************************************************************)
EXTENDS Integers, Sequences, FiniteSets, TLC

\* ------------------------------------------------------------------ bounds
NumJobs == 2
\* largest object size stored in the bucket for streaming
MaxObjSize == 11
\* stands for settings.CHUNK_SIZE, the read size of stream_file
ChunkSize == 2
\* stands for settings.MAX_UPLOAD_SIZE; upload sizes are taken around it
MaxUploadSize == 2

Jobs == 1..NumJobs
UploadSizes == {MaxUploadSize, MaxUploadSize + 1}
SrtLengths == {0, 1}

None == <<>>
Some(v) == <<v>>

VARIABLES
    pc,             \* pc[j]: the await process_video job j is suspended at
    inp,            \* inp[j]: the request of job j (upload size, srt length)
    video_id,       \* video_id[j]: routes.py local video_id (None until created)
    err,            \* err[j]: str(e) of the exception being handled
    enc,            \* enc[j]: what the spawned ffmpeg process does, and its -vf
    video_info,     \* video_info[j]: result of get_video_metadata
    files,          \* files[j]: transient files of job j present in TEMP_DIR
    cleanupCalls,   \* cleanupCalls[j]: number of cleanup_files(temp_files) calls
    resp,           \* resp[j]: the HTTP response of job j (None while running)
    table,          \* the DynamoDB table: id -> item
    bucket,         \* the S3 bucket: key -> object bytes
    encInvoked,     \* jobs for which an ffmpeg process was spawned
    updCalls,       \* updCalls[j]: update_video calls made by job j, in order
    job_id,         \* job_id[j]: the 8 hex digits job j draws for its names
    enrichment,     \* enrichment[j]: detected_language, animals_detected of job j
    spc,            \* the await the stream_video request is suspended at
    sreq,           \* the stream_video request: filename and Range header
    sresp,          \* the stream_video response: status, headers, body
    now,            \* the value datetime.now() returns
    apc,            \* the await the metadata request is suspended at
    areq,           \* the metadata request: endpoint or service call, arguments
    avideos,        \* the records the request has loaded (video / videos)
    adel,           \* what the request's S3Service.delete_file call did
    aresp           \* the response of the metadata request

\* what a job receives or draws when it starts; no step changes it
drawnVars == <<job_id, enrichment>>
jobVars == <<pc, inp, video_id, err, enc, video_info, files, cleanupCalls, resp,
             encInvoked, updCalls, drawnVars>>
streamVars == <<spc, sreq, sresp>>
apiVars == <<now, apc, areq, avideos, adel, aresp>>
vars == <<pc, inp, video_id, err, enc, video_info, files, cleanupCalls, resp,
          table, bucket, encInvoked, updCalls, spc, sreq, sresp,
          now, apc, areq, avideos, adel, aresp, job_id, enrichment>>

\* ------------------------------------------------------------ data model
\* models/video.py VideoStatus
PENDING == "pending"
PROCESSING == "processing"
SAVED == "saved"
FAILED == "failed"

\* attributes an item of the table can carry
ItemFields == {"filename", "file_path", "link", "s3_key", "status", "file_size",
               "duration", "resolution", "error_message", "source_video_id",
               "detected_language", "animals_detected",
               "created_at", "updated_at"}

\* models/video.py VideoUpdateRequest: every field optional, default None
VideoUpdateRequest(status, error_message, file_size, duration, resolution, link, s3_key, detected_language, animals_detected) ==
    [status |-> status, error_message |-> error_message, file_size |-> file_size,
     duration |-> duration, resolution |-> resolution, link |-> link, s3_key |-> s3_key,
     detected_language |-> detected_language, animals_detected |-> animals_detected]

\* job-scoped names (routes.py 58, 79-85): the S3 key and the three transient
\* paths of a job are built from its job_id
FinalKey(id) == <<"job", id, "_final.mp4">>
S3Key(j) == FinalKey(job_id[j])
TempFiles == {"original", "srt", "burned"}

\* ------------------------------------------------- DynamoDBService helpers
\* routes.py 41: the form field source_video_id of job j; the jobs with an
\* even number are submitted with one, the others without
SourceVideoId(j) == IF j % 2 = 0 THEN Some("srcA") ELSE None

\* create_video 214-229: the item put for a VideoCreateRequest; None values are
\* dropped by _serialize_item, a missing source id is stored as "NONE"
CreateItem(j) ==
    [f \in ItemFields |->
        CASE f = "filename" -> Some("upload.mp4")
          [] f = "file_path" -> Some(<<"s3://", S3Key(j)>>)
          [] f = "link" -> Some(<<"api_stream", S3Key(j)>>)
          [] f = "s3_key" -> Some(S3Key(j))
          [] f = "status" -> Some(PROCESSING)
          [] f = "file_size" -> Some(inp[j].size)
          [] f = "source_video_id" ->
                 IF SourceVideoId(j) # None THEN SourceVideoId(j) ELSE Some("NONE")
          [] f \in {"created_at", "updated_at"} -> Some(now)
          [] OTHER -> None]

\* update_video 267: the non-None fields of the request
UpdateDict(update_data) ==
    {f \in DOMAIN update_data : update_data[f] # None}

\* update_video 270-304: update_item SET of the fields and of updated_at on
\* Key id; DynamoDB creates the item when the key is absent (no
\* ConditionExpression is given)
UpdateItem(tbl, id, update_data) ==
    LET old == IF id \in DOMAIN tbl THEN tbl[id] ELSE [f \in ItemFields |-> None]
        new == [f \in ItemFields |->
                   IF f \in UpdateDict(update_data) THEN update_data[f]
                   ELSE IF f = "updated_at" THEN Some(now)
                   ELSE old[f]]
    IN  (id :> new) @@ tbl

\* VideoMetadata(**item): filename, file_path and link are required
ValidItem(item) ==
    /\ item["filename"] # None
    /\ item["file_path"] # None
    /\ item["link"] # None

\* S3Service.get_presigned_url: the URL signed for key at time t
PresignedUrl(key, t) == <<"presigned", key, t>>

\* cleanup_files: every listed file that exists is unlinked
CleanedFiles(present) == present \ TempFiles

\* ------------------------------------------------------------------- Init
\* uuid.uuid4().hex[:8] of routes.py 58 drew a different value for every job
DistinctIds == job_id = [j \in Jobs |-> j]

\* the form fields detected_language and animals_detected (routes.py 43-44);
\* animals_detected is shown parsed (routes.py 65-72): a label -> count mapping
\* is the set of its <<label, count>> items
NoEnrichment == [detected_language |-> None, animals_detected |-> None]
Languages == {None, Some("fr")}
Animals == {None, Some({}), Some({<<"dog", 2>>})}
Enrichments == [detected_language : Languages, animals_detected : Animals]

\* every job is submitted without the two enrichment fields
PlainJobs == enrichment = [j \in Jobs |-> NoEnrichment]

JobInit ==
    /\ pc = [j \in Jobs |-> "idle"]
    /\ inp = [j \in Jobs |-> [size |-> 0, srt |-> 0]]
    /\ video_id = [j \in Jobs |-> None]
    /\ err = [j \in Jobs |-> None]
    /\ enc = [j \in Jobs |-> None]
    /\ video_info = [j \in Jobs |-> None]
    /\ files = [j \in Jobs |-> {}]
    /\ cleanupCalls = [j \in Jobs |-> 0]
    /\ resp = [j \in Jobs |-> None]
    /\ encInvoked = {}
    /\ updCalls = [j \in Jobs |-> <<>>]

StreamInit ==
    /\ spc = "idle"
    /\ sreq = None
    /\ sresp = None

ApiInit ==
    /\ apc = "idle"
    /\ areq = None
    /\ avideos = <<>>
    /\ adel = None
    /\ aresp = None

Init ==
    /\ DistinctIds
    /\ PlainJobs
    /\ JobInit
    /\ table = <<>>
    /\ bucket = <<>>
    /\ StreamInit
    /\ now = 0
    /\ ApiInit

\* ------------------------------------------------------- process_video
Upd(f, j, v) == [f EXCEPT ![j] = v]

\* routes.py 79-81: the transient paths are TEMP_DIR/{job_id}_original.mp4,
\* _subs.srt and _burned.mp4, so the jobs that drew the same job_id see the
\* same files; the files at the paths of job j become present
TempDir(j, present) ==
    [k \in Jobs |-> IF job_id[k] = job_id[j] THEN present ELSE files[k]]

\* python truthiness of an optional mapping ("if animals_dict", routes.py 191):
\* None and the empty mapping are false
DictTruthy(opt) == opt # None /\ opt[1] # {}

\* file_utils.validate_file_size: the file exists and is at most max_size
validate_file_size(size, max_size) == size <= max_size

\* variant of validate_srt_content: an empty file counts as subtitles
validate_srt_contentAny(srtLen) == srtLen >= 0

\* FFmpegService._validate_srt_content: a file with no content has no subtitles
validate_srt_content(srtLen) == srtLen > 0

\* burn_subtitles 164, 183-186, 242: the -vf argument of the ffmpeg command;
\* a missing subtitle file has no subtitles either (FileNotFoundError, 51-53)
ScaleOnly == <<"scale">>
SubtitlesThenScale == <<"subtitles", "scale">>
VfFilter(j) ==
    IF "srt" \in files[j] /\ validate_srt_content(inp[j].srt)
    THEN SubtitlesThenScale ELSE ScaleOnly

\* what the ffmpeg child process can do once spawned
EncOutcomes == {"ok", "nonzero", "no_output", "hang"}

\* FFmpegService.get_video_metadata: ffprobe's values, or the fallback dict
ProbeResults ==
    {[size |-> 1, duration |-> 5, resolution |-> "640x360"],
     [size |-> 0, duration |-> 0, resolution |-> "unknown"]}

\* the bytes of the encoded file of job j
EncodedBytes(j) == <<j, j + 1>>

\* routes.py 177-194: the update that marks the record SAVED; the languages
\* of this model are not empty strings, so "if detected_language" is a test
\* for None
SavedUpdate(j) ==
    VideoUpdateRequest(Some(SAVED), None, Some(video_info[j][1].size),
                       Some(video_info[j][1].duration),
                       Some(video_info[j][1].resolution),
                       Some(PresignedUrl(S3Key(j), now)), Some(S3Key(j)),
                       IF enrichment[j].detected_language # None
                       THEN enrichment[j].detected_language ELSE None,
                       IF DictTruthy(enrichment[j].animals_detected)
                       THEN enrichment[j].animals_detected ELSE None)

\* variant of FailedUpdate: the handler sets the status only
FailedUpdateNoMessage(j) ==
    VideoUpdateRequest(Some(FAILED), None, None, None, None, None, None, None, None)

\* routes.py 235-238: the update of the except Exception handler
FailedUpdate(j) ==
    VideoUpdateRequest(Some(FAILED), err[j], None, None, None, None, None, None, None)

\* routes.py 240: HTTPException(500, f"Processing failed: {str(e)}")
ProcessingFailed(msg) == [code |-> 500, detail |-> <<"Processing failed: ", msg>>]

\* an exception that leaves process_video: the framework answers 500
Unhandled == [code |-> 500, detail |-> <<"Internal Server Error">>]

\* variant of FailNoRecord: the handler raises without calling cleanup_files
FailNoRecordNoCleanup(j, response) ==
    /\ pc' = Upd(pc, j, "failed")
    /\ files' = TempDir(j, files[j] \cup {"original"})
    /\ cleanupCalls' = cleanupCalls
    /\ resp' = Upd(resp, j, Some(response))

\* routes.py 223-240 with video_id None: no update, cleanup_files, raise
FailNoRecord(j, response) ==
    /\ pc' = Upd(pc, j, "failed")
    /\ files' = TempDir(j, CleanedFiles(files[j] \cup {"original"}))
    /\ cleanupCalls' = Upd(cleanupCalls, j, cleanupCalls[j] + 1)
    /\ resp' = Upd(resp, j, Some(response))

\* routes.py 232-234 with a record: the handler awaits update_video(FAILED)
EnterHandler(j, msg) ==
    /\ pc' = Upd(pc, j, "except")
    /\ err' = Upd(err, j, Some(msg))

\* routes.py 58-114: save the upload, check its size
ReceiveUpload(j) ==
    /\ pc[j] = "idle"
    /\ \E size \in UploadSizes, srt \in SrtLengths :
          /\ inp' = Upd(inp, j, [size |-> size, srt |-> srt])
          /\ IF validate_file_size(size, MaxUploadSize)
             THEN /\ pc' = Upd(pc, j, "read_srt")
                  /\ files' = TempDir(j, files[j] \cup {"original"})
                  /\ UNCHANGED <<cleanupCalls, resp>>
             ELSE FailNoRecord(j, [code |-> 413,
                                   detail |-> <<"File size exceeds maximum allowed size">>])
    /\ UNCHANGED <<video_id, err, enc, video_info, table, bucket, encInvoked, updCalls,
                   streamVars, apiVars, drawnVars>>

\* routes.py 119-146: save the subtitle file, build the create request
SaveSrt(j) ==
    /\ pc[j] = "read_srt"
    /\ files' = TempDir(j, files[j] \cup {"srt"})
    /\ pc' = Upd(pc, j, "create")
    /\ UNCHANGED <<inp, video_id, err, enc, video_info, cleanupCalls, resp, table,
                   bucket, encInvoked, updCalls,
                   streamVars, apiVars, drawnVars>>

\* routes.py 104-146: writing a transient file or building the create request
\* raised (OSError, ValidationError); routes.py 232-240 with video_id None
SaveSrtFail(j) ==
    /\ pc[j] = "read_srt"
    /\ FailNoRecord(j, ProcessingFailed("OSError: write"))
    /\ UNCHANGED <<inp, video_id, err, enc, video_info, table, bucket, encInvoked,
                   updCalls, streamVars, apiVars, drawnVars>>

\* variant of CreateVideoOk: the put_item is not awaited, the job goes on
\* before the item is written
CreateVideoNotAwaited(j) ==
    /\ pc[j] = "create"
    /\ video_id' = Upd(video_id, j, Some(j))
    /\ pc' = Upd(pc, j, "burn")
    /\ UNCHANGED <<inp, err, enc, video_info, files, cleanupCalls, resp, table,
                   bucket, encInvoked, updCalls,
                   streamVars, apiVars, drawnVars>>

\* routes.py 148-149, create_video 206-244: put_item succeeded
CreateVideoOk(j) ==
    /\ pc[j] = "create"
    /\ table' = (j :> CreateItem(j)) @@ table
    /\ video_id' = Upd(video_id, j, Some(j))
    /\ pc' = Upd(pc, j, "burn")
    /\ UNCHANGED <<inp, err, enc, video_info, files, cleanupCalls, resp, bucket,
                   encInvoked, updCalls,
                   streamVars, apiVars, drawnVars>>

\* variant of CreateVideoFail: the item was written although put_item raised
CreateVideoFailStored(j) ==
    /\ pc[j] = "create"
    /\ FailNoRecord(j, ProcessingFailed("ClientError: PutItem"))
    /\ table' = (j :> CreateItem(j)) @@ table
    /\ UNCHANGED <<inp, video_id, err, enc, video_info, bucket, encInvoked,
                   updCalls,
                   streamVars, apiVars, drawnVars>>

\* create_video 246-248: put_item raised; routes.py 232-240 with video_id None
CreateVideoFail(j) ==
    /\ pc[j] = "create"
    /\ FailNoRecord(j, ProcessingFailed("ClientError: PutItem"))
    /\ UNCHANGED <<inp, video_id, err, enc, video_info, table, bucket, encInvoked,
                   updCalls,
                   streamVars, apiVars, drawnVars>>

\* burn_subtitles 155-211 / 238-264: the video file exists, the ffmpeg
\* process is spawned
BurnStart(j) ==
    /\ pc[j] = "burn"
    /\ "original" \in files[j]
    /\ \E o \in EncOutcomes : enc' = Upd(enc, j, <<o, VfFilter(j)>>)
    /\ encInvoked' = encInvoked \cup {j}
    /\ pc' = Upd(pc, j, "burning")
    /\ UNCHANGED <<inp, video_id, err, video_info, files, cleanupCalls, resp, table,
                   bucket, updCalls,
                   streamVars, apiVars, drawnVars>>

\* burn_subtitles 160-161, 225-229 / 278-282: the video file is missing, or
\* create_subprocess_exec raised
BurnSpawnFail(j) ==
    /\ pc[j] = "burn"
    /\ EnterHandler(j, "FFmpeg execution failed: spawn")
    /\ UNCHANGED <<inp, video_id, enc, video_info, files, cleanupCalls, resp, table,
                   bucket, encInvoked, updCalls,
                   streamVars, apiVars, drawnVars>>

\* burn_subtitles 211-223: communicate() returned, exit code 0, output present
BurnOk(j) ==
    /\ pc[j] = "burning"
    /\ enc[j][1] = "ok"
    /\ files' = TempDir(j, files[j] \cup {"burned"})
    /\ pc' = Upd(pc, j, "upload")
    /\ UNCHANGED <<inp, video_id, err, enc, video_info, cleanupCalls, resp, table,
                   bucket, encInvoked, updCalls,
                   streamVars, apiVars, drawnVars>>

\* burn_subtitles 213-221: non-zero exit code, or no output file
BurnFail(j) ==
    /\ pc[j] = "burning"
    /\ enc[j][1] \in {"nonzero", "no_output"}
    /\ EnterHandler(j, IF enc[j][1] = "nonzero"
                       THEN "FFmpeg processing failed: tail"
                       ELSE "Output file missing after FFmpeg run")
    /\ UNCHANGED <<inp, video_id, enc, video_info, files, cleanupCalls, resp, table,
                   bucket, encInvoked, updCalls,
                   streamVars, apiVars, drawnVars>>

\* routes.py 164-171: upload_file succeeded, then the file is probed
UploadOk(j) ==
    /\ pc[j] = "upload"
    /\ "burned" \in files[j]
    /\ bucket' = (S3Key(j) :> EncodedBytes(j)) @@ bucket
    /\ \E info \in ProbeResults : video_info' = Upd(video_info, j, Some(info))
    /\ pc' = Upd(pc, j, "presign")
    /\ UNCHANGED <<inp, video_id, err, enc, files, cleanupCalls, resp, table,
                   encInvoked, updCalls,
                   streamVars, apiVars, drawnVars>>

\* upload_file 120-122: the upload raised (the file is missing, or S3 failed)
UploadFail(j) ==
    /\ pc[j] = "upload"
    /\ EnterHandler(j, "ClientError: PutObject")
    /\ UNCHANGED <<inp, video_id, enc, video_info, files, cleanupCalls, resp, table,
                   bucket, encInvoked, updCalls,
                   streamVars, apiVars, drawnVars>>

\* routes.py 174-194: the presigned URL was generated, the update is built
PresignOk(j) ==
    /\ pc[j] = "presign"
    /\ pc' = Upd(pc, j, "update")
    /\ UNCHANGED <<inp, video_id, err, enc, video_info, files, cleanupCalls, resp,
                   table, bucket, encInvoked, updCalls,
                   streamVars, apiVars, drawnVars>>

\* get_presigned_url 192-194: generate_presigned_url raised
PresignFail(j) ==
    /\ pc[j] = "presign"
    /\ EnterHandler(j, "ClientError: GeneratePresignedUrl")
    /\ UNCHANGED <<inp, video_id, enc, video_info, files, cleanupCalls, resp, table,
                   bucket, encInvoked, updCalls,
                   streamVars, apiVars, drawnVars>>

\* variant of AfterSaved: a statement after the SAVED update raises, so the
\* except Exception handler runs on a record that is already SAVED
AfterSavedRaises(j) ==
    /\ EnterHandler(j, "RuntimeError: add_task")
    /\ UNCHANGED resp

\* routes.py 196-221: where the job goes once update_video(SAVED) has returned
AfterSaved(j) ==
    /\ pc' = Upd(pc, j, "done")
    /\ resp' = Upd(resp, j, Some([code |-> 200, detail |-> <<"success">>]))
    /\ UNCHANGED err

\* routes.py 196, update_video 262-311: update_item applied the SAVED update
UpdateSavedOk(j) ==
    /\ pc[j] = "update"
    /\ updCalls' = Upd(updCalls, j, Append(updCalls[j], SAVED))
    /\ table' = UpdateItem(table, video_id[j][1], SavedUpdate(j))
    /\ IF ValidItem(table'[video_id[j][1]])
       THEN AfterSaved(j)
       ELSE EnterHandler(j, "ValidationError: VideoMetadata") /\ UNCHANGED resp
    /\ UNCHANGED <<inp, video_id, enc, video_info, files, cleanupCalls, bucket,
                   encInvoked,
                   streamVars, apiVars, drawnVars>>

\* update_video 313-318: update_item raised, nothing was written
UpdateSavedFail(j) ==
    /\ pc[j] = "update"
    /\ updCalls' = Upd(updCalls, j, Append(updCalls[j], SAVED))
    /\ EnterHandler(j, "ClientError: UpdateItem")
    /\ UNCHANGED <<inp, video_id, enc, video_info, files, cleanupCalls, resp, table,
                   bucket, encInvoked,
                   streamVars, apiVars, drawnVars>>

\* routes.py 235-240: update_video(FAILED) returned; cleanup, raise the 500
HandlerUpdateOk(j) ==
    /\ pc[j] = "except"
    /\ updCalls' = Upd(updCalls, j, Append(updCalls[j], FAILED))
    /\ table' = UpdateItem(table, video_id[j][1], FailedUpdate(j))
    /\ IF ValidItem(table'[video_id[j][1]])
       THEN /\ files' = TempDir(j, CleanedFiles(files[j]))
            /\ cleanupCalls' = Upd(cleanupCalls, j, cleanupCalls[j] + 1)
            /\ resp' = Upd(resp, j, Some(ProcessingFailed(err[j][1])))
            /\ pc' = Upd(pc, j, "failed")
       ELSE /\ resp' = Upd(resp, j, Some(Unhandled))
            /\ pc' = Upd(pc, j, "errored")
            /\ UNCHANGED <<files, cleanupCalls>>
    /\ UNCHANGED <<inp, video_id, err, enc, video_info, bucket, encInvoked,
                   streamVars, apiVars, drawnVars>>

\* routes.py 235-238, update_video 313-318: update_video(FAILED) raised inside
\* the handler; the exception leaves process_video
HandlerUpdateFail(j) ==
    /\ pc[j] = "except"
    /\ updCalls' = Upd(updCalls, j, Append(updCalls[j], FAILED))
    /\ resp' = Upd(resp, j, Some(Unhandled))
    /\ pc' = Upd(pc, j, "errored")
    /\ UNCHANGED <<inp, video_id, err, enc, video_info, files, cleanupCalls, table,
                   bucket, encInvoked,
                   streamVars, apiVars, drawnVars>>

\* routes.py 199: the background task cleanup_files(temp_files) runs
BackgroundCleanup(j) ==
    /\ pc[j] = "done"
    /\ files' = TempDir(j, CleanedFiles(files[j]))
    /\ cleanupCalls' = Upd(cleanupCalls, j, cleanupCalls[j] + 1)
    /\ pc' = Upd(pc, j, "cleaned")
    /\ UNCHANGED <<inp, video_id, err, enc, video_info, resp, table, bucket,
                   encInvoked, updCalls,
                   streamVars, apiVars, drawnVars>>

JobStep(j) ==
    \/ ReceiveUpload(j)
    \/ SaveSrt(j)
    \/ SaveSrtFail(j)
    \/ CreateVideoOk(j)
    \/ CreateVideoFail(j)
    \/ BurnStart(j)
    \/ BurnSpawnFail(j)
    \/ BurnOk(j)
    \/ BurnFail(j)
    \/ UploadOk(j)
    \/ UploadFail(j)
    \/ PresignOk(j)
    \/ PresignFail(j)
    \/ UpdateSavedOk(j)
    \/ UpdateSavedFail(j)
    \/ HandlerUpdateOk(j)
    \/ HandlerUpdateFail(j)
    \/ BackgroundCleanup(j)

Next == \E j \in Jobs : JobStep(j)

Spec == Init /\ [][Next]_vars

\* ------------------------------------------------------ job-scoped names
\* routes.py 58: job_id is the first 8 hex digits of a uuid4, 32 random bits
\* drawn independently by every request; two requests can draw the same
\* value.  The jobs that run here are the first two.
Racers == {1, 2}

InitNames ==
    /\ job_id \in [Jobs -> Racers]
    /\ PlainJobs
    /\ JobInit
    /\ table = <<>>
    /\ bucket = <<>>
    /\ StreamInit
    /\ now = 0
    /\ ApiInit

NamesNext == \E j \in Racers : JobStep(j)

SpecNames == InitNames /\ [][NamesNext]_vars

\* ------------------------------------------------- enrichment metadata
\* one job, submitted with any of the values of the two enrichment fields
InitMeta ==
    /\ DistinctIds
    /\ enrichment \in {[j \in Jobs |-> IF j = 1 THEN e ELSE NoEnrichment] :
                          e \in Enrichments}
    /\ JobInit
    /\ table = <<>>
    /\ bucket = <<>>
    /\ StreamInit
    /\ now = 0
    /\ ApiInit

MetaNext == JobStep(1)

SpecMeta == InitMeta /\ [][MetaNext]_vars

\* ---------------------------------------------------------- text helpers
\* A Python str is a sequence of one-character strings.
Digits == <<"0", "1", "2", "3", "4", "5", "6", "7", "8", "9">>
IsDigit(c) == \E d \in 1..10 : Digits[d] = c
DigitVal(c) == (CHOOSE d \in 1..10 : Digits[d] = c) - 1

\* str(n) / f"{n}" of an int
RECURSIVE IntToStr(_)
IntToStr(n) ==
    IF n < 0 THEN <<"-">> \o IntToStr(0 - n)
    ELSE IF n < 10 THEN <<Digits[n + 1]>>
    ELSE IntToStr(n \div 10) \o <<Digits[(n % 10) + 1]>>

RECURSIVE DigitsValue(_)
DigitsValue(s) ==
    IF s = <<>> THEN 0
    ELSE DigitsValue(SubSeq(s, 1, Len(s) - 1)) * 10 + DigitVal(s[Len(s)])

\* int(s) over the header alphabet (digits, "-", "=", letters): the value of a
\* non-empty digit string, otherwise ValueError (None)
PyInt(s) ==
    IF s # <<>> /\ \A i \in 1..Len(s) : IsDigit(s[i])
    THEN Some(DigitsValue(s))
    ELSE None

\* s.replace(old, ""): every occurrence of old, left to right, is removed
RECURSIVE PyRemoveAll(_, _)
PyRemoveAll(s, old) ==
    IF Len(s) < Len(old) THEN s
    ELSE IF SubSeq(s, 1, Len(old)) = old
         THEN PyRemoveAll(SubSeq(s, Len(old) + 1, Len(s)), old)
         ELSE <<Head(s)>> \o PyRemoveAll(Tail(s), old)

\* s.split(c): the parts of s between the occurrences of c
RECURSIVE PySplit(_, _)
PySplit(s, c) ==
    IF \A i \in 1..Len(s) : s[i] # c THEN <<s>>
    ELSE LET i == CHOOSE k \in 1..Len(s) :
                      s[k] = c /\ \A m \in 1..(k - 1) : s[m] # c
         IN  <<SubSeq(s, 1, i - 1)>> \o PySplit(SubSeq(s, i + 1, Len(s)), c)

BytesEq == <<"b", "y", "t", "e", "s", "=">>
BytesSp == <<"b", "y", "t", "e", "s", " ">>
Dash == <<"-">>

\* ---------------------------------------------------------- stream_video
Min(a, b) == IF a <= b THEN a ELSE b

\* the object streamed in this model, and the bytes of an object of size n
StreamKey == S3Key(1)
ObjBytes(n) == [i \in 1..n |-> (i * 7) % 256]
StoredObjects == {<<>>} \cup {(StreamKey :> ObjBytes(n)) : n \in 0..MaxObjSize}

\* the Range headers sent: well-formed ranges, open and suffix forms, and
\* malformed ones; None is a request without the header
Offsets == 0..(MaxObjSize + 1)
RangeOf(a, b) == BytesEq \o IntToStr(a) \o Dash \o IntToStr(b)
OpenRangeOf(a) == BytesEq \o IntToStr(a) \o Dash
RangeHeaders ==
    {RangeOf(a, b) : a \in Offsets, b \in Offsets}
        \cup {OpenRangeOf(a) : a \in Offsets}
        \cup {BytesEq \o Dash \o IntToStr(b) : b \in Offsets}
        \cup {BytesEq \o IntToStr(a) : a \in Offsets}
        \cup {IntToStr(a) \o Dash : a \in Offsets}
        \cup {BytesEq \o Dash, BytesEq \o <<"x">> \o Dash \o <<"1">>,
              BytesEq \o <<"0">> \o Dash \o <<"x">>, <<>>}

\* S3 GetObject with a Range of start and optional end on an object: the bytes
\* start..min(end, size-1); InvalidRange (None) when start is past the object;
\* a range whose end precedes its start is ignored and the object is returned
S3GetObject(obj, start, end) ==
    IF end # None /\ end[1] < start THEN Some(obj)
    ELSE IF start >= Len(obj) THEN None
    ELSE Some(SubSeq(obj, start + 1,
                     (IF end = None THEN Len(obj) - 1 ELSE Min(end[1], Len(obj) - 1)) + 1))

\* variant of StreamFileRangeEnd: "if end_byte:" instead of "is not None"
StreamFileRangeEndTruthy(end_byte) ==
    IF end_byte # None /\ end_byte[1] # 0 THEN end_byte ELSE None

\* stream_file 300-303: the end of the Range sent to S3 (None for "start-")
StreamFileRangeEnd(end_byte) == IF end_byte # None THEN end_byte ELSE None

\* stream_file 312-317: the chunks read(CHUNK_SIZE) returns until it is empty
RECURSIVE ReadChunks(_, _)
ReadChunks(data, size) ==
    IF data = <<>> THEN <<>>
    ELSE <<SubSeq(data, 1, Min(size, Len(data)))>>
             \o ReadChunks(SubSeq(data, Min(size, Len(data)) + 1, Len(data)), size)

RECURSIVE Concat(_)
Concat(chunks) == IF chunks = <<>> THEN <<>> ELSE Head(chunks) \o Concat(Tail(chunks))

\* stream_file 296-317: the bytes the generator yields, or None when get_object
\* raises
stream_file(obj, start_byte, end_byte) ==
    LET got == S3GetObject(obj, start_byte, StreamFileRangeEnd(end_byte))
    IN  IF got = None THEN None ELSE Some(Concat(ReadChunks(got[1], ChunkSize)))

\* routes.py 280-285: start and end of the header, None on ValueError
ParseRange(range_header, file_size) ==
    LET range_match == PySplit(PyRemoveAll(range_header, BytesEq), "-")
        start == IF range_match[1] # <<>> THEN PyInt(range_match[1]) ELSE Some(0)
        end == IF Len(range_match) > 1 /\ range_match[2] # <<>>
               THEN PyInt(range_match[2]) ELSE Some(file_size - 1)
    IN  IF start = None \/ end = None THEN None
        ELSE Some([start |-> start[1], end |-> end[1]])

\* variant of InvalidRange that does not refuse an end past the object
InvalidRangeNoEnd(start, end, file_size) ==
    start >= file_size \/ start > end

\* routes.py 287: the bounds the handler refuses
InvalidRange(start, end, file_size) ==
    start >= file_size \/ end >= file_size \/ start > end

\* a response: status, the headers of interest, the body iterator still to be
\* run (the arguments of stream_file) and the body bytes sent
Response(code, content_range, content_length, location, pending) ==
    [code |-> code, content_range |-> content_range,
     content_length |-> content_length, location |-> location,
     pending |-> pending, body |-> None]

NotFound == Response(404, None, None, None, None)
RangeNotSatisfiable == Response(416, None, None, None, None)

\* routes.py 290-304: the 206 response, its body still to be streamed
PartialContent(start, end, file_size) ==
    Response(206,
             Some(BytesSp \o IntToStr(start) \o Dash \o IntToStr(end)
                      \o <<"/">> \o IntToStr(file_size)),
             Some(IntToStr(end - start + 1)), None,
             Some([start_byte |-> start, end_byte |-> Some(end)]))

\* a GET /api/stream/{filename} arrives; routes.py 259-262 awaits file_exists
StreamRequest ==
    /\ spc \in {"idle", "done"}
    /\ \E h \in {None} \cup {Some(r) : r \in RangeHeaders} :
          sreq' = Some([filename |-> StreamKey, range |-> h])
    /\ sresp' = None
    /\ spc' = "exists"
    /\ UNCHANGED <<apiVars, jobVars, table, bucket>>

\* routes.py 262-264: file_exists returned False
StreamNotFound ==
    /\ spc = "exists"
    /\ sreq[1].filename \notin DOMAIN bucket
    /\ sresp' = Some(NotFound)
    /\ spc' = "done"
    /\ UNCHANGED <<apiVars, jobVars, table, bucket, sreq>>

\* variant of StreamFound: the handler goes on without the existence check
StreamFoundUnchecked ==
    /\ spc = "exists"
    /\ spc' = IF sreq[1].range = None \/ sreq[1].range = Some(<<>>)
              THEN "presign" ELSE "size"
    /\ UNCHANGED <<apiVars, jobVars, table, bucket, sreq, sresp>>

\* routes.py 266-274: the object exists; without a Range header (or with an
\* empty one) the handler awaits get_presigned_url, otherwise get_file_size
StreamFound ==
    /\ spc = "exists"
    /\ sreq[1].filename \in DOMAIN bucket
    /\ spc' = IF sreq[1].range = None \/ sreq[1].range = Some(<<>>)
              THEN "presign" ELSE "size"
    /\ UNCHANGED <<apiVars, jobVars, table, bucket, sreq, sresp>>

\* variant of StreamRedirect: the presigned URL is also written to the record
\* of the object
StreamRedirectStoresLink ==
    /\ spc = "presign"
    /\ sresp' = Some(Response(302, None, None,
                              Some(PresignedUrl(sreq[1].filename, now)), None))
    /\ table' = [id \in DOMAIN table |->
                    IF table[id]["s3_key"] = Some(sreq[1].filename)
                    THEN [table[id] EXCEPT
                             !["link"] = Some(PresignedUrl(sreq[1].filename, now))]
                    ELSE table[id]]
    /\ spc' = "done"
    /\ UNCHANGED <<apiVars, jobVars, bucket, sreq>>

\* routes.py 270-271: redirect to the presigned URL
StreamRedirect ==
    /\ spc = "presign"
    /\ sresp' = Some(Response(302, None, None,
                              Some(PresignedUrl(sreq[1].filename, now)), None))
    /\ spc' = "done"
    /\ UNCHANGED <<apiVars, jobVars, table, bucket, sreq>>

\* routes.py 274-277: get_file_size returned None
StreamSizeGone ==
    /\ spc = "size"
    /\ sreq[1].filename \notin DOMAIN bucket
    /\ sresp' = Some(NotFound)
    /\ spc' = "done"
    /\ UNCHANGED <<apiVars, jobVars, table, bucket, sreq>>

\* routes.py 274-304: the size is known; parse and validate the range, answer
\* 416 or 206
StreamRange ==
    /\ spc = "size"
    /\ sreq[1].filename \in DOMAIN bucket
    /\ LET file_size == Len(bucket[sreq[1].filename])
           parsed == ParseRange(sreq[1].range[1], file_size)
       IN  IF parsed = None
              \/ InvalidRange(parsed[1].start, parsed[1].end, file_size)
           THEN sresp' = Some(RangeNotSatisfiable) /\ spc' = "done"
           ELSE /\ sresp' = Some(PartialContent(parsed[1].start, parsed[1].end,
                                                file_size))
                /\ spc' = "body"
    /\ UNCHANGED <<apiVars, jobVars, table, bucket, sreq>>

\* StreamingResponse runs stream_file(s3_key, start, end): the body is the
\* chunks it yields; if get_object raises, the body is cut (stays None)
StreamBody ==
    /\ spc = "body"
    /\ LET key == sreq[1].filename
           args == sresp[1].pending[1]
           data == IF key \in DOMAIN bucket
                   THEN stream_file(bucket[key], args.start_byte, args.end_byte)
                   ELSE None
       IN  sresp' = Some([sresp[1] EXCEPT !.pending = None, !.body = data])
    /\ spc' = "done"
    /\ UNCHANGED <<apiVars, jobVars, table, bucket, sreq>>

\* the object is removed from the bucket while requests are served
\* (S3Service.delete_file, delete_object)
S3ObjectRemoved ==
    /\ StreamKey \in DOMAIN bucket
    /\ bucket' = [k \in DOMAIN bucket \ {StreamKey} |-> bucket[k]]
    /\ UNCHANGED <<apiVars, jobVars, table, streamVars, apiVars, drawnVars>>

StreamNext ==
    \/ StreamRequest
    \/ StreamNotFound
    \/ StreamFound
    \/ StreamRedirect
    \/ StreamSizeGone
    \/ StreamRange
    \/ StreamBody
    \/ S3ObjectRemoved

\* the record create_video stored for job j, as it is while the job runs
RecordOf(j) == (j :> CreateItem(j))

\* the bucket holds an object left by an earlier job, or nothing; the table
\* is empty or holds the record of that job
InitStream ==
    /\ DistinctIds
    /\ PlainJobs
    /\ JobInit
    /\ now = 0
    /\ table \in {<<>>, RecordOf(1)}
    /\ bucket \in StoredObjects
    /\ StreamInit
    /\ ApiInit

SpecStream == InitStream /\ [][StreamNext]_vars

\* ------------------------------------------------- metadata endpoints
\* largest value of the clock
MaxTime == 3

\* ids a request can name: the records of the jobs, and 0, an id no record has
RequestIds == 0..NumJobs
SourceIds == {"NONE", "srcA", "srcB"}

\* the record create_video stored for job j (still PROCESSING); creation
\* times are not in the order of the ids
CreatedAt(j) == (2 * j) % MaxTime
StoredItem(j) ==
    [CreateItem(j) EXCEPT
        !["created_at"] = Some(CreatedAt(j)),
        !["updated_at"] = Some(CreatedAt(j))]

\* the value a service returns for an item: VideoMetadata(**item), with its id
Video(id, item) == [id |-> id, item |-> item]

\* the patches update_video is called with, for the id of a record a job
\* created: the handler's FAILED update (routes.py 235-238) and a request with
\* every field None
FailedPatch ==
    VideoUpdateRequest(Some(FAILED), Some("FFmpeg processing failed"),
                       None, None, None, None, None, None, None)
EmptyPatch == VideoUpdateRequest(None, None, None, None, None, None, None, None, None)

Limits == {1, NumJobs + 1}
StatusFilters == {None, Some(PROCESSING), Some(FAILED)}

Requests ==
    [op : {"delete", "get"}, id : RequestIds, key : {"NONE"},
     status : {None}, limit : {1}, patch : {EmptyPatch}]
      \cup [op : {"update"}, id : Jobs, key : {"NONE"},
            status : {None}, limit : {1}, patch : {EmptyPatch, FailedPatch}]
      \cup [op : {"by_source"}, id : {0}, key : SourceIds,
            status : {None}, limit : {1}, patch : {EmptyPatch}]
      \cup [op : {"list"}, id : {0}, key : {"NONE"},
            status : StatusFilters, limit : Limits, patch : {EmptyPatch}]

\* a response: the HTTP status (for the service call update_video: 200 when it
\* returns, 500 when it raises) and the records in the body
ApiResponse(code, videos) == [code |-> code, videos |-> videos]

\* a request arrives; "at" is the time it arrived
ApiRequest ==
    /\ apc \in {"idle", "done"}
    /\ \E r \in Requests :
          /\ areq' = Some([op |-> r.op, id |-> r.id, key |-> r.key,
                           status |-> r.status, limit |-> r.limit,
                           patch |-> r.patch, at |-> now])
          /\ apc' = r.op
    /\ avideos' = <<>>
    /\ adel' = None
    /\ aresp' = None
    /\ UNCHANGED <<jobVars, streamVars, table, bucket, now>>

\* datetime.now() advances
Tick ==
    /\ now < MaxTime
    /\ now' = now + 1
    /\ UNCHANGED <<jobVars, streamVars, table, bucket, apc, areq, avideos, adel, aresp>>

\* DynamoDBService.get_video 337-343: None when there is no item,
\* VideoMetadata(**item) otherwise, which raises ValidationError when a
\* required field is missing
GetVideo(id) ==
    IF id \notin DOMAIN table THEN [raised |-> FALSE, video |-> None]
    ELSE IF ~ValidItem(table[id]) THEN [raised |-> TRUE, video |-> None]
    ELSE [raised |-> FALSE, video |-> Some(Video(id, table[id]))]

\* the end of a request: its response is sent
Finish(response) ==
    /\ aresp' = Some(response)
    /\ apc' = "done"

ApiNotFound == ApiResponse(404, <<>>)
ApiError == ApiResponse(500, <<>>)

\* "if video.s3_key": the keys of this model are never empty strings
Truthy(opt) == opt # None
RemoveKey(f, k) == [x \in DOMAIN f \ {k} |-> f[x]]

\* variant of DeleteGet: a missing record does not stop the handler
DeleteGetNoCheck ==
    /\ apc = "delete"
    /\ LET id == areq[1].id
           key == IF id \in DOMAIN table /\ Truthy(table[id]["s3_key"])
                  THEN table[id]["s3_key"][1] ELSE FinalKey(id)
       IN  /\ avideos' = <<>>
           /\ bucket' = RemoveKey(bucket, key)
           /\ adel' = Some("deleted")
           /\ apc' = "dbdel"
    /\ UNCHANGED <<jobVars, streamVars, table, now, areq, aresp>>

\* delete_video, routes.py 369-374: get_video, 404 when there is no record;
\* the ValidationError of get_video is not caught (500)
DeleteGet ==
    /\ apc = "delete"
    /\ LET g == GetVideo(areq[1].id)
       IN  IF g.raised THEN Finish(ApiError) /\ UNCHANGED avideos
           ELSE IF g.video = None THEN Finish(ApiNotFound) /\ UNCHANGED avideos
           ELSE /\ avideos' = <<g.video[1]>>
                /\ apc' = IF Truthy(g.video[1].item["s3_key"]) THEN "s3del" ELSE "dbdel"
                /\ UNCHANGED aresp
    /\ UNCHANGED <<jobVars, streamVars, table, bucket, now, areq, adel>>

\* routes.py 374-377, delete_file 211-218: delete_object removes the object;
\* it succeeds as well when the key holds no object
DeleteBlobOk ==
    /\ apc = "s3del"
    /\ bucket' = RemoveKey(bucket, avideos[1].item["s3_key"][1])
    /\ adel' = Some("deleted")
    /\ apc' = "dbdel"
    /\ UNCHANGED <<jobVars, streamVars, table, now, areq, avideos, aresp>>

\* routes.py 378-379, delete_file 220-222: delete_object raised, the handler
\* logs and goes on
DeleteBlobFail ==
    /\ apc = "s3del"
    /\ adel' = Some("raised")
    /\ apc' = "dbdel"
    /\ UNCHANGED <<jobVars, streamVars, table, bucket, now, areq, avideos, aresp>>

\* routes.py 382-386, DynamoDBService.delete_video 490-500: delete_item with
\* ALL_OLD; 404 when no item was there any more
DeleteRecord ==
    /\ apc = "dbdel"
    /\ LET id == areq[1].id
       IN  IF id \in DOMAIN table
           THEN table' = RemoveKey(table, id) /\ Finish(ApiResponse(200, <<>>))
           ELSE table' = table /\ Finish(ApiNotFound)
    /\ UNCHANGED <<jobVars, streamVars, bucket, now, areq, avideos, adel>>

\* the delete_item of a concurrent DELETE request for the same record
ConcurrentDeleteItem ==
    /\ \E id \in DOMAIN table : table' = RemoveKey(table, id)
    /\ UNCHANGED <<jobVars, streamVars, bucket, apiVars>>

\* routes.py 315-319, 338-342, 354-358: the link of a record with an s3_key is
\* replaced by a presigned URL; when get_presigned_url raises, the failure is
\* logged and the record keeps the link it was read with
Refresh(video, failed) ==
    IF Truthy(video.item["s3_key"]) /\ ~failed
    THEN [video EXCEPT !.item["link"] = Some(PresignedUrl(video.item["s3_key"][1], now))]
    ELSE video

\* get_video_metadata, routes.py 310-312
ReadGet ==
    /\ apc = "get"
    /\ LET g == GetVideo(areq[1].id)
       IN  IF g.raised THEN Finish(ApiError) /\ UNCHANGED avideos
           ELSE IF g.video = None THEN Finish(ApiNotFound) /\ UNCHANGED avideos
           ELSE avideos' = <<g.video[1]>> /\ apc' = "presign" /\ UNCHANGED aresp
    /\ UNCHANGED <<jobVars, streamVars, table, bucket, now, areq, adel>>

\* get_video_by_source_id, routes.py 330-335 and dynamodb_service.py 403-416:
\* query of source_video_id-index with Limit=1, any one of the matching items
BySourceQuery ==
    /\ apc = "by_source"
    /\ LET matches == {id \in DOMAIN table :
                          table[id]["source_video_id"] = Some(areq[1].key)}
       IN  IF matches = {} THEN Finish(ApiNotFound) /\ UNCHANGED avideos
           ELSE \E id \in matches :
                   IF ~ValidItem(table[id]) THEN Finish(ApiError) /\ UNCHANGED avideos
                   ELSE /\ avideos' = <<Video(id, table[id])>>
                        /\ apc' = "presign"
                        /\ UNCHANGED aresp
    /\ UNCHANGED <<jobVars, streamVars, table, bucket, now, areq, adel>>

\* the presigned-URL loop of the read endpoints and the response; failing is
\* the set of positions whose get_presigned_url call raises
ReadPresign ==
    /\ apc = "presign"
    /\ \E failing \in SUBSET (1..Len(avideos)) :
          Finish(ApiResponse(200, [i \in 1..Len(avideos) |->
                                      Refresh(avideos[i], i \in failing)]))
    /\ UNCHANGED <<jobVars, streamVars, table, bucket, now, areq, avideos, adel>>

\* the orderings of a set of record ids, and "newest first" over created_at
Orderings(S) ==
    {seq \in [1..Cardinality(S) -> S] :
        \A i, k \in 1..Cardinality(S) : i # k => seq[i] # seq[k]}
NewestFirst(seq) ==
    \A i \in 1..(Len(seq) - 1) :
        table[seq[i]]["created_at"][1] >= table[seq[i + 1]]["created_at"][1]
Take(seq, n) == SubSeq(seq, 1, Min(n, Len(seq)))

\* list_videos 458-459: VideoMetadata(**item) for every item read, or the
\* ValidationError of the first invalid one (None)
AsVideos(ids) ==
    IF \E i \in 1..Len(ids) : ~ValidItem(table[ids[i]]) THEN None
    ELSE Some([i \in 1..Len(ids) |-> Video(ids[i], table[ids[i]])])

\* list_videos 445-453 with a status: the KeyConditionExpression names the
\* attribute "status" literally; status is a reserved word of DynamoDB
\* expressions, and the service answers ValidationException (a ClientError,
\* re-raised at 467-469)
ListQueryRejected ==
    /\ apc = "list"
    /\ areq[1].status # None
    /\ Finish(ApiError)
    /\ UNCHANGED <<jobVars, streamVars, table, bucket, now, areq, avideos, adel>>

\* list_videos 445-465 with a status, on a backend that accepts the
\* expression: the items of status-created_at-index with that status (only
\* items carrying both key attributes are in the index), by created_at
\* descending, at most limit of them
ListQueryOk ==
    /\ apc = "list"
    /\ areq[1].status # None
    /\ LET index == {id \in DOMAIN table :
                        /\ table[id]["status"] = areq[1].status
                        /\ table[id]["created_at"] # None}
       IN  \E seq \in Orderings(index) :
              /\ NewestFirst(seq)
              /\ LET videos == AsVideos(Take(seq, areq[1].limit))
                 IN  IF videos = None THEN Finish(ApiError) /\ UNCHANGED avideos
                     ELSE avideos' = videos[1] /\ apc' = "presign" /\ UNCHANGED aresp
    /\ UNCHANGED <<jobVars, streamVars, table, bucket, now, areq, adel>>

\* list_videos 454-465 without status: scan(Limit=limit) reads limit items in
\* the table's own order (any limit of them), which are then sorted by
\* created_at descending; the sort is stable, ties stay in scan order
ListScan ==
    /\ apc = "list"
    /\ areq[1].status = None
    /\ \E S \in SUBSET (DOMAIN table) :
          /\ Cardinality(S) = Min(areq[1].limit, Cardinality(DOMAIN table))
          /\ IF \E id \in S : ~ValidItem(table[id])
             THEN Finish(ApiError) /\ UNCHANGED avideos
             ELSE \E seq \in Orderings(S) :
                     /\ NewestFirst(seq)
                     /\ avideos' = AsVideos(seq)[1]
                     /\ apc' = "presign"
                     /\ UNCHANGED aresp
    /\ UNCHANGED <<jobVars, streamVars, table, bucket, now, areq, adel>>

\* the result of an update_video call: the table after it, whether it raised,
\* and the record it returned (None for a None return)
UpdateResult(tbl, raised, video) == [table |-> tbl, raised |-> raised, video |-> video]

\* DynamoDBService.update_video 267-318: an empty update is get_video;
\* otherwise update_item (which creates the item when there is none), then
\* VideoMetadata(**Attributes), which raises on an item without the required
\* fields; ConditionalCheckFailedException cannot occur
DynamoDBUpdateVideo(id, update_data) ==
    IF UpdateDict(update_data) = {}
    THEN UpdateResult(table, GetVideo(id).raised, GetVideo(id).video)
    ELSE LET tbl == UpdateItem(table, id, update_data)
         IN  IF ValidItem(tbl[id])
             THEN UpdateResult(tbl, FALSE, Some(Video(id, tbl[id])))
             ELSE UpdateResult(tbl, TRUE, None)

\* MongoDBService.update_video 159-177: find_one_and_update without upsert
\* returns None and writes nothing when no document has the id
MongoDBUpdateVideo(id, update_data) ==
    IF UpdateDict(update_data) = {}
    THEN UpdateResult(table, GetVideo(id).raised, GetVideo(id).video)
    ELSE IF id \notin DOMAIN table THEN UpdateResult(table, FALSE, None)
    ELSE LET tbl == UpdateItem(table, id, update_data)
         IN  UpdateResult(tbl, ~ValidItem(tbl[id]),
                          IF ValidItem(tbl[id]) THEN Some(Video(id, tbl[id])) ELSE None)

\* a call of DynamoDBService.update_video (the service the routes import)
UpdateVideo ==
    /\ apc = "update"
    /\ LET r == DynamoDBUpdateVideo(areq[1].id, areq[1].patch)
       IN  /\ table' = r.table
           /\ Finish(IF r.raised THEN ApiError
                     ELSE ApiResponse(200, IF r.video = None THEN <<>>
                                           ELSE <<r.video[1]>>))
    /\ UNCHANGED <<jobVars, streamVars, bucket, now, areq, avideos, adel>>

\* the records and blobs left by jobs that are still PROCESSING
ApiTable == [j \in Jobs |-> StoredItem(j)]
ApiBucket == [k \in {S3Key(j) : j \in Jobs} |-> ObjBytes(1)]

InitApi ==
    /\ DistinctIds
    /\ PlainJobs
    /\ JobInit
    /\ StreamInit
    /\ ApiInit
    /\ now = MaxTime - 1
    /\ table = ApiTable
    /\ bucket = ApiBucket

ApiNext ==
    \/ ApiRequest
    \/ Tick
    \/ DeleteGet
    \/ DeleteBlobOk
    \/ DeleteBlobFail
    \/ DeleteRecord
    \/ ConcurrentDeleteItem
    \/ S3ObjectRemoved
    \/ ReadGet
    \/ BySourceQuery
    \/ ReadPresign
    \/ ListQueryRejected
    \/ ListQueryOk
    \/ ListScan
    \/ UpdateVideo

SpecApi == InitApi /\ [][ApiNext]_vars

\* ================================================================ claims
Status(id) == table[id]["status"]
Terminated(j) == resp[j] # None
CreateFailed(j) == resp[j] = Some(ProcessingFailed("ClientError: PutItem"))
EncoderFailed(j) == enc[j] # None /\ enc[j][1] \in {"nonzero", "no_output"}

\* C1: a record's status only ever changes PROCESSING -> SAVED or
\* PROCESSING -> FAILED; a SAVED or FAILED record keeps its status in every
\* later step of every job.
C1_StatusMonotonic ==
    [][\A id \in DOMAIN table :
          /\ id \in DOMAIN table'
          /\ \/ Status(id)' = Status(id)
             \/ /\ Status(id) = Some(PROCESSING)
                /\ Status(id)' \in {Some(SAVED), Some(FAILED)}]_vars

C1_Witness ==
    \E j, k \in Jobs :
        /\ pc[j] = "cleaned" /\ Status(j) = Some(SAVED)
        /\ pc[k] = "failed" /\ k \in DOMAIN table /\ Status(k) = Some(FAILED)

\* C2: once a job has created its record, a job that has terminated never
\* leaves the record in PROCESSING: every failure after the creation ends
\* with the record FAILED, also when the FAILED update itself fails.
C2_TerminatedRecordIsTerminal ==
    \A j \in Jobs :
        (Terminated(j) /\ video_id[j] # None)
            => Status(video_id[j][1]) \in {Some(SAVED), Some(FAILED)}

\* C3: on every failure path of process_video, cleanup_files has been called
\* on the job's transient files when the failure is surfaced.
C3_FailureCleansUp ==
    \A j \in Jobs :
        (Terminated(j) /\ resp[j][1].code # 200)
            => cleanupCalls[j] >= 1

\* C4: for a job that created a record, a failure response is returned only
\* with the record FAILED and a success response only with the record SAVED.
C4_OutcomeMatchesRecord ==
    \A j \in Jobs :
        (Terminated(j) /\ video_id[j] # None)
            => /\ video_id[j][1] \in DOMAIN table
               /\ IF resp[j][1].code = 200
                  THEN Status(video_id[j][1]) = Some(SAVED)
                  ELSE Status(video_id[j][1]) = Some(FAILED)

\* C5: a record has file_size, duration and resolution populated if and only
\* if its status is SAVED; a PROCESSING or FAILED record has none of them.
C5_PropertiesIffSaved ==
    \A id \in DOMAIN table :
        IF Status(id) = Some(SAVED)
        THEN /\ table[id]["file_size"] # None
             /\ table[id]["duration"] # None
             /\ table[id]["resolution"] # None
        ELSE /\ table[id]["file_size"] = None
             /\ table[id]["duration"] = None
             /\ table[id]["resolution"] = None

\* C6: the encoder is spawned only for a job whose record has been created,
\* and at that moment the record exists with status PROCESSING.
C6_RecordBeforeEncoder ==
    [][\A j \in Jobs :
          (j \notin encInvoked /\ j \in encInvoked')
              => /\ video_id[j] # None
                 /\ video_id[j][1] \in DOMAIN table
                 /\ Status(video_id[j][1]) = Some(PROCESSING)]_vars

C6_Witness ==
    \E j \in Jobs : j \in encInvoked /\ pc[j] = "burning" /\ j \in DOMAIN table

\* C7: when the encoder fails (non-zero exit or missing output), the job ends
\* with the record FAILED and error_message the failure's message, the
\* transient files cleaned up, a 500 whose detail contains the message, and
\* no blob written.
C7_EncoderFailureRecorded ==
    \A j \in Jobs :
        (Terminated(j) /\ EncoderFailed(j))
            => /\ Status(video_id[j][1]) = Some(FAILED)
               /\ table[video_id[j][1]]["error_message"] = err[j]
               /\ cleanupCalls[j] >= 1 /\ files[j] = {}
               /\ resp[j][1].code = 500
               /\ \E i \in 1..Len(resp[j][1].detail) : resp[j][1].detail[i] = err[j][1]
               /\ S3Key(j) \notin DOMAIN bucket

\* C8: if create_video fails, no further pipeline step runs (no encoder, no
\* blob write, no metadata update) and no record of the job exists.
C8_CreateFailureStopsPipeline ==
    \A j \in Jobs :
        CreateFailed(j)
            => /\ j \notin encInvoked
               /\ S3Key(j) \notin DOMAIN bucket
               /\ updCalls[j] = <<>>
               /\ video_id[j] = None
               /\ j \notin DOMAIN table
               /\ ~ENABLED JobStep(j)

C8_Witness ==
    \E j \in Jobs : CreateFailed(j) /\ pc[j] = "failed" /\ cleanupCalls[j] = 1

\* C9: the encoder invocation is bounded by the configured timeout: a job
\* waiting for the encoder can always take a further step (the encoder's exit
\* or the timeout), also when the encoder process never exits.
C9_EncoderWaitCanProceed ==
    \A j \in Jobs : pc[j] = "burning" => ENABLED JobStep(j)

\* C10: for an existing object of size n and a range 0 <= start <= end < n,
\* stream_video answers 206 with Content-Range "bytes start-end/n",
\* Content-Length end-start+1 and the bytes start..end of the object as body;
\* "start-" is served as start..n-1.
Served(start, end, obj) ==
    /\ sresp[1].code = 206
    /\ sresp[1].content_range =
           Some(BytesSp \o IntToStr(start) \o Dash \o IntToStr(end) \o <<"/">>
                    \o IntToStr(Len(obj)))
    /\ sresp[1].content_length = Some(IntToStr(end - start + 1))
    /\ sresp[1].body = Some([i \in 1..(end - start + 1) |-> obj[start + i]])

C10_ValidRangeServed ==
    (spc = "done" /\ StreamKey \in DOMAIN bucket)
        => LET obj == bucket[StreamKey]
           IN  \A a \in Offsets :
                  /\ \A b \in Offsets :
                        (a <= b /\ b < Len(obj) /\ sreq[1].range = Some(RangeOf(a, b)))
                            => Served(a, b, obj)
                  /\ (a < Len(obj) /\ sreq[1].range = Some(OpenRangeOf(a)))
                        => Served(a, Len(obj) - 1, obj)

C10_Witness ==
    /\ spc = "done"
    /\ StreamKey \in DOMAIN bucket
    /\ sreq[1].range = Some(RangeOf(2, 10))
    /\ sresp[1].code = 206
    /\ sresp[1].body # None
    /\ Len(sresp[1].body[1]) = 9

\* the request carries a Range header (an empty one counts as absent, 268)
RangeRequest == sreq # None /\ sreq[1].range # None /\ sreq[1].range # Some(<<>>)
SuffixRangeOf(b) == BytesEq \o Dash \o IntToStr(b)
Refused == sresp[1].code = 416 /\ sresp[1].body = None /\ sresp[1].pending = None

\* C11: for an existing object of size n, a range request bytes=a-b with
\* a >= n, b >= n or a > b, a request bytes=a- with a >= n, and every range
\* request on an object of size 0 is answered 416, with no partial body.
C11_BadBoundsRefused ==
    (spc = "done" /\ StreamKey \in DOMAIN bucket /\ RangeRequest)
        => LET n == Len(bucket[StreamKey])
           IN  /\ \A a, b \in Offsets :
                     (sreq[1].range = Some(RangeOf(a, b)) /\ (a >= n \/ b >= n \/ a > b))
                         => Refused
               /\ \A a \in Offsets :
                     (sreq[1].range = Some(OpenRangeOf(a)) /\ a >= n) => Refused
               /\ (n = 0) => Refused

C11_Witness ==
    /\ spc = "done"
    /\ StreamKey \in DOMAIN bucket
    /\ Len(bucket[StreamKey]) = 11
    /\ sreq[1].range = Some(RangeOf(2, 11))
    /\ sresp[1].code = 416

\* C12: a Range header without a numeric start ("bytes=-b" or "bytes=-") on
\* an existing object is answered 416 and never with a partial body.
C12_NoStartRefused ==
    (spc = "done" /\ StreamKey \in DOMAIN bucket /\ RangeRequest)
        => /\ (sreq[1].range = Some(BytesEq \o Dash)) => Refused
           /\ \A b \in Offsets : (sreq[1].range = Some(SuffixRangeOf(b))) => Refused

C14_MissingObjectNotFound ==
    [][(sreq # None /\ sreq[1].filename \notin DOMAIN bucket
            /\ spc \in {"exists", "size"} /\ spc' # spc)
          => (spc' = "done" /\ sresp' = Some(NotFound))]_vars

C14_Witness ==
    /\ spc = "done"
    /\ bucket = <<>>
    /\ sreq[1].range = Some(BytesEq \o <<"x">> \o Dash \o <<"1">>)
    /\ sresp = Some(NotFound)

\* C15: every step of a stream_video request, whatever its outcome (206,
\* redirect, 404, 416), leaves the set of records, every field of every
\* record, and the set and content of the blobs unchanged.
C15_StreamMutatesNothing ==
    [][(spc' # spc \/ sreq' # sreq \/ sresp' # sresp)
          => (table' = table /\ bucket' = bucket)]_vars

C15_Witness ==
    /\ spc = "done"
    /\ sresp[1].code = 302
    /\ table = RecordOf(1)
    /\ StreamKey \in DOMAIN bucket

ApiOp(op) == areq # None /\ areq[1].op = op

\* C16: delete_video on an id without record answers 404 at once: no blob
\* deletion is attempted, and no record or blob is created, changed or removed.
C16_DeleteMissingNoEffect ==
    [][(ApiOp("delete") /\ apc = "delete" /\ areq[1].id \notin DOMAIN table
            /\ apc' # apc)
          => /\ apc' = "done"
             /\ aresp' = Some(ApiNotFound)
             /\ adel' = None
             /\ table' = table
             /\ bucket' = bucket]_vars

C16_Witness ==
    /\ ApiOp("delete") /\ apc = "done"
    /\ areq[1].id = 0
    /\ aresp = Some(ApiNotFound)
    /\ adel = None
    /\ table = ApiTable
    /\ bucket = ApiBucket

\* C17: delete_video on an existing record first attempts the blob deletion,
\* goes on whether that deletion succeeded, failed or found no blob, and then
\* deletes the record and answers success.
C17_DeleteExistingSucceeds ==
    [][(ApiOp("delete") /\ apc' # apc)
          => /\ (apc = "delete" /\ areq[1].id \in DOMAIN table) => apc' = "s3del"
             /\ (apc = "s3del") => (apc' = "dbdel" /\ adel' # None)
             /\ (apc = "dbdel" /\ areq[1].id \in DOMAIN table)
                   => /\ areq[1].id \notin DOMAIN table'
                      /\ aresp' = Some(ApiResponse(200, <<>>))]_vars

\* C18: update_video on an id without record is a no-op returning None: the
\* table is unchanged and nothing is raised, as with the MongoDB backend.
C18_UpdateMissingIsNoOp ==
    [][(ApiOp("update") /\ apc = "update" /\ areq[1].id \notin DOMAIN table
            /\ apc' # apc)
          => /\ table' = table
             /\ aresp' = Some(ApiResponse(200, <<>>))
             /\ DynamoDBUpdateVideo(areq[1].id, areq[1].patch)
                    = MongoDBUpdateVideo(areq[1].id, areq[1].patch)]_vars

\* C19: list_videos returns the records (with a status filter: exactly those
\* having that status), up to the limit, ordered by creation time descending.
C19_ListFilteredNewestFirst ==
    [][(ApiOp("list") /\ apc = "list" /\ apc' # apc)
          => LET ids == [i \in 1..Len(avideos') |-> avideos'[i].id]
                 wanted == {id \in DOMAIN table :
                               areq[1].status # None
                                   => table[id]["status"] = areq[1].status}
             IN  /\ apc' = "presign"
                 /\ \A i \in 1..Len(ids) : ids[i] \in wanted
                 /\ \A i, k \in 1..Len(ids) : i # k => ids[i] # ids[k]
                 /\ Len(ids) = Min(areq[1].limit, Cardinality(wanted))
                 /\ NewestFirst(ids)]_vars

\* C20: every record with an s3_key returned by GET /videos/{id},
\* GET /videos/by-source/{k} or GET /videos carries a link generated during
\* that request, also when get_presigned_url fails.
C20_ReturnedLinkIsFresh ==
    (apc = "done" /\ areq[1].op \in {"get", "by_source", "list"})
        => \A i \in 1..Len(aresp[1].videos) :
              LET item == aresp[1].videos[i].item
              IN  item["s3_key"] # None
                      => \E t \in areq[1].at..now :
                            item["link"] = Some(PresignedUrl(item["s3_key"][1], t))

\* ------------------------------------------- a job racing the endpoints
\* process_video job 1 in flight while DELETE /videos/{id}, GET /videos/{id}
\* and GET /videos requests are served
RaceRequest ==
    /\ ApiRequest
    /\ areq'[1].op \in {"delete", "get", "list"}

RaceNext ==
    \/ JobStep(1)
    \/ RaceRequest
    \/ DeleteGet
    \/ DeleteBlobOk
    \/ DeleteBlobFail
    \/ DeleteRecord
    \/ ReadGet
    \/ ReadPresign
    \/ ListQueryRejected
    \/ ListQueryOk
    \/ ListScan

SpecRace == Init /\ [][RaceNext]_vars

\* ------------------------------------------------------------ C21 .. C30
\* C21: two concurrent jobs use disjoint transient file names and distinct
\* blob keys, so no job reads, overwrites or deletes what belongs to another:
\* the transient files a job has written are there while it needs them, and
\* the blob under its key is the file it encoded.  Refuted by two jobs that
\* drew the same job_id.
C21_JobsIsolated ==
    \A j \in Jobs :
        /\ pc[j] \in {"create", "burn", "burning"} => {"original", "srt"} \subseteq files[j]
        /\ pc[j] = "upload" => "burned" \in files[j]
        /\ pc[j] \in {"presign", "update", "done", "cleaned"} =>
              /\ S3Key(j) \in DOMAIN bucket
              /\ bucket[S3Key(j)] = EncodedBytes(j)

\* C22: a zero-length subtitle payload is not an error: the payload is saved,
\* the encoder is spawned with the scale filter only, an encoder that succeeds
\* lets the job go on to the upload, and the job that finishes has a SAVED
\* record and the 200 response, as a job with subtitles has.
EmptySrt(j) == pc[j] # "idle" /\ inp[j].srt = 0 /\ validate_file_size(inp[j].size, MaxUploadSize)

C22_EmptySrtNotAnError ==
    \A j \in Jobs : EmptySrt(j) =>
        /\ pc[j] = "read_srt" => ENABLED SaveSrt(j)
        /\ pc[j] = "burn" => ENABLED BurnStart(j)
        /\ enc[j] # None => enc[j][2] = ScaleOnly
        /\ pc[j] = "burning" /\ enc[j][1] = "ok" => ENABLED BurnOk(j)
        /\ pc[j] \in {"done", "cleaned"} =>
              /\ table[j]["status"] = Some(SAVED)
              /\ resp[j][1].code = 200

C22_Witness ==
    \E j \in Jobs :
        /\ EmptySrt(j)
        /\ pc[j] = "cleaned"
        /\ enc[j] = <<"ok", ScaleOnly>>
        /\ table[j]["status"] = Some(SAVED)

\* C23: a job whose upload exceeds MAX_UPLOAD_SIZE is answered 413 (and only
\* such a job is), with no record created, no encoder spawned, no blob
\* written and no update made, and the transient files it wrote are removed
\* by one cleanup_files call.
TooLarge(j) == pc[j] # "idle" /\ inp[j].size > MaxUploadSize

C23_TooLargeIs413 ==
    \A j \in Jobs :
        /\ TooLarge(j) =>
              /\ pc[j] = "failed"
              /\ resp[j] # None /\ resp[j][1].code = 413
              /\ video_id[j] = None
              /\ j \notin DOMAIN table
              /\ j \notin encInvoked
              /\ enc[j] = None
              /\ S3Key(j) \notin DOMAIN bucket
              /\ updCalls[j] = <<>>
              /\ files[j] = {}
              /\ cleanupCalls[j] = 1
        /\ resp[j] # None /\ resp[j][1].code = 413 => TooLarge(j)

C23_Witness ==
    \E j \in Jobs :
        /\ TooLarge(j)
        /\ resp[j] # None /\ resp[j][1].code = 413
        /\ \E k \in Jobs : pc[k] \in {"done", "cleaned"}

\* C24: the enrichment metadata is stored verbatim: after a successful job,
\* get(id) returns the detected_language and the label -> count mapping the
\* job was submitted with, the empty mapping included, and none when none was
\* supplied.  Refuted by the empty mapping.
C24_EnrichmentVerbatim ==
    \A j \in Jobs : pc[j] \in {"done", "cleaned"} =>
        /\ ~GetVideo(j).raised
        /\ GetVideo(j).video # None
        /\ GetVideo(j).video[1].item["detected_language"] = enrichment[j].detected_language
        /\ GetVideo(j).video[1].item["animals_detected"] = enrichment[j].animals_detected

\* C25: in every state a record carries an error_message only if its status
\* is FAILED, and a record whose status is FAILED (only process_video's
\* handlers set it) carries an error_message.
C25_ErrorMessageIffFailed ==
    \A id \in DOMAIN table :
        table[id]["error_message"] # None <=> table[id]["status"] = Some(FAILED)

C25_Witness ==
    \E id \in DOMAIN table, k \in DOMAIN table :
        /\ table[id]["status"] = Some(FAILED)
        /\ table[id]["error_message"] = err[id]
        /\ err[id] # None
        /\ table[k]["status"] = Some(SAVED)
        /\ table[k]["error_message"] = None

\* C26: update_video on an existing record sets exactly the non-null fields
\* of the patch and updated_at, every other field keeps its value and every
\* other record is untouched; a patch with no non-null field changes nothing
\* and returns the current record.
C26_UpdateAppliesPatch ==
    [][(ApiOp("update") /\ apc = "update" /\ areq[1].id \in DOMAIN table
            /\ apc' # apc)
          => LET id == areq[1].id
                 patch == areq[1].patch
             IN  /\ DOMAIN table' = DOMAIN table
                 /\ \A k \in DOMAIN table \ {id} : table'[k] = table[k]
                 /\ IF \A f \in DOMAIN patch : patch[f] = None
                    THEN /\ table' = table
                         /\ aresp' = Some(ApiResponse(200, <<Video(id, table[id])>>))
                    ELSE \A f \in ItemFields :
                            table'[id][f] =
                                IF f \in DOMAIN patch /\ patch[f] # None THEN patch[f]
                                ELSE IF f = "updated_at" THEN Some(now)
                                ELSE table[id][f]]_vars

\* C27: once DELETE /videos/{id} has removed the record of a job that is
\* still in flight, the record stays absent: no later step, the job's SAVED
\* or FAILED update included, recreates it, so no get or listing can find it.
C27_DeletedStaysDeleted ==
    [][(video_id[1] # None /\ 1 \notin DOMAIN table) => 1 \notin DOMAIN table']_vars

\* C28: when the table holds more records than the limit, the unfiltered
\* list_videos(limit = n) returns at most n records and they are the n most
\* recently created ones: no record left out is newer than a record returned.
C28_ListReturnsNewest ==
    [][(ApiOp("list") /\ apc = "list" /\ areq[1].status = None
            /\ Cardinality(DOMAIN table) > areq[1].limit
            /\ (\A id \in DOMAIN table : ValidItem(table[id]))
            /\ apc' # apc)
          => LET returned == {avideos'[i].id : i \in 1..Len(avideos')}
             IN  /\ Len(avideos') <= areq[1].limit
                 /\ \A r \in returned, x \in DOMAIN table \ returned :
                       table[r]["created_at"][1] >= table[x]["created_at"][1]]_vars

\* C29: get_video_by_source_id(k) only returns a record whose job was
\* submitted with source_video_id = k, so a record created without a source
\* id is returned for no k ("NONE" included); and such a record reads back
\* from get_video with an absent source_video_id.
C29_BySourceOnlySubmitted ==
    [][/\ (ApiOp("by_source") /\ apc = "by_source" /\ apc' # apc)
            => \A i \in 1..Len(avideos') :
                   SourceVideoId(avideos'[i].id) = Some(areq[1].key)
       /\ (ApiOp("get") /\ apc = "get" /\ apc' # apc)
            => \A i \in 1..Len(avideos') :
                   SourceVideoId(avideos'[i].id) = None
                       => avideos'[i].item["source_video_id"] = None]_vars

\* C30: the bucket holds an object under a job's key if and only if the
\* job's record is SAVED: a SAVED record always has its blob (the upload comes
\* first), and a job that has been answered without a SAVED record, such as
\* one failing at the presigned URL or at the update, leaves no blob behind.
C30_BlobIffSaved ==
    \A j \in Jobs :
        LET saved == j \in DOMAIN table /\ table[j]["status"] = Some(SAVED)
        IN  /\ saved => S3Key(j) \in DOMAIN bucket
            /\ resp[j] # None /\ S3Key(j) \in DOMAIN bucket => saved

====
